---- MODULE Spec2Model ----
(***************************************************************************)
(* State-machine model of the orchestration engine of TradingAgents-CN:   *)
(* TradingAgentsGraph (tradingagents/graph/trading_graph.py) with its      *)
(* collaborators (Propagator, ConditionalLogic, GraphSetup, Reflector,     *)
(* SignalProcessor, FinancialSituationMemory) modelled at their interface. *)
(***************************************************************************)
EXTENDS Integers, Sequences, FiniteSets, TLC

\* ------------------------------------------------------------------ bounds
\* Total number of calls (propagate / reflect_and_remember) in one behaviour.
MaxCalls == 2

\* Tool requests the analysts' language model makes in one run.
MaxToolCalls == 1

\* ------------------------------------------------------------------ inputs
Threads == {1, 2}

\* company_name arguments; "" is the empty instrument.
Instruments == {"AAPL", "MSFT"}
CompanyNames == Instruments \cup {""}

\* trade_date arguments: a str or a datetime.date object.
TradeDates ==
    { [type |-> "str",  iso |-> "2024-05-01"],
      [type |-> "date", iso |-> "2024-05-02"] }

\* Python's str(): the identity on a str, the ISO form of a datetime.date.
Str(d) == d.iso

\* returns_losses arguments (signed outcome).
Outcomes == {-1, 1}

\* Narratives the risk judge's language model may produce (token sequences).
FinalTexts == { <<"BUY", "risk", "HOLD">>, <<"risk">> }

None == "None"
NoState == [none |-> TRUE]

\* ------------------------------------------------------------------ state
VARIABLES
    config,            \* self.debug, selected_analysts, self.config
    curr_state,        \* self.curr_state
    ticker,            \* self.ticker
    log_states_dict,   \* self.log_states_dict
    files,             \* eval_results/<ticker>/.../full_states_log.json
    memory,            \* the five FinancialSituationMemory stores
    pc,                \* position of each calling thread
    frame,             \* locals of each calling thread
    result,            \* what each thread's last call returned or raised
    calls              \* calls made so far

vars == <<config, curr_state, ticker, log_states_dict, files, memory,
          pc, frame, result, calls>>

Roles == <<"bull", "bear", "trader", "invest_judge", "risk_manager">>

AllAnalysts == <<"market", "social", "news", "fundamentals">>

\* TradingAgentsGraph.__init__ arguments: debug, selected_analysts and the
\* config entries the orchestration reads.  The round maxima are those the
\* ConditionalLogic is constructed with, recursion_limit that of the Propagator.
Config(dbg, sel, me, lim) ==
    [ debug |-> dbg, selected_analysts |-> sel, memory_enabled |-> me,
      max_debate_rounds |-> 1, max_risk_discuss_rounds |-> 1,
      recursion_limit |-> lim ]

\* config["max_debate_rounds"], config["max_risk_discuss_rounds"] set apart
\* from each other.
WithRounds(cfg, debate, risk) ==
    [cfg EXCEPT !.max_debate_rounds = debate,
                !.max_risk_discuss_rounds = risk]

\* Orchestrator configurations explored.
Configs ==
    { Config(FALSE, <<"market", "news">>, TRUE, 11),
      WithRounds(Config(TRUE, <<"market">>, FALSE, 13), 2, 1),
      Config(FALSE, <<>>, TRUE, 10),
      Config(TRUE,  <<>>, TRUE, 1) }

\* Those explored with two callers.
ParConfigs ==
    { Config(FALSE, <<>>, TRUE, 10),
      Config(TRUE,  <<>>, TRUE, 1) }

\* ------------------------------------------------------------------ Pipeline Driver
\* Propagator.create_initial_state: both inputs must be non-empty.
ValidInputs(company_name, trade_date) ==
    company_name # "" /\ Str(trade_date) # ""

\* Propagator.create_initial_state: every mutable field empty or zero,
\* messages seeded with one framing entry (messages is its length).
create_initial_state(company_name, trade_date) ==
    [ company_of_interest    |-> company_name,
      trade_date             |-> Str(trade_date),
      market_report          |-> "",
      sentiment_report       |-> "",
      news_report            |-> "",
      fundamentals_report    |-> "",
      investment_debate_state |->
          [ bull_history |-> <<>>, bear_history |-> <<>>, history |-> <<>>,
            current_response |-> "", judge_decision |-> "", count |-> 0 ],
      trader_investment_plan |-> "",
      risk_debate_state |->
          [ risky_history |-> <<>>, safe_history |-> <<>>,
            neutral_history |-> <<>>, history |-> <<>>,
            latest_speaker |-> "none", judge_decision |-> "", count |-> 0 ],
      investment_plan        |-> "",
      final_trade_decision   |-> <<>>,
      messages               |-> 1 ]

\* ------------------------------------------------------------------ Graph Builder
Range(s) == { s[i] : i \in 1..Len(s) }

IndexOf(s, x) == CHOOSE i \in 1..Len(s) : s[i] = x

ReportField ==
    [ market |-> "market_report", social |-> "sentiment_report",
      news |-> "news_report", fundamentals |-> "fundamentals_report" ]

ToolNode ==
    [ market |-> "tools_market", social |-> "tools_social",
      news |-> "tools_news", fundamentals |-> "tools_fundamentals" ]

AnalystOfTool ==
    [ tools_market |-> "market", tools_social |-> "social",
      tools_news |-> "news", tools_fundamentals |-> "fundamentals" ]

\* GraphSetup.setup_graph: the entry point is the first selected analyst; with
\* no analyst selected the run starts at the research debate.
EntryNode(selected) ==
    IF selected = <<>> THEN "bull" ELSE selected[1]

\* Edge after an analyst has concluded: the next selected analyst, then bull.
AfterAnalyst(selected, a) ==
    IF IndexOf(selected, a) < Len(selected)
    THEN selected[IndexOf(selected, a) + 1]
    ELSE "bull"

\* ------------------------------------------------------------------ Routing Policy
\* Mutant of should_continue_debate: one exchange more than the maximum.
should_continue_debate_inclusive(state, node, cfg) ==
    IF state.investment_debate_state.count <= cfg.max_debate_rounds
    THEN (IF node = "bull" THEN "bear" ELSE "bull")
    ELSE "research_manager"

\* After a bull/bear turn: alternate while roundCount < maxDebateRounds.
should_continue_debate(state, node, cfg) ==
    IF state.investment_debate_state.count < cfg.max_debate_rounds
    THEN (IF node = "bull" THEN "bear" ELSE "bull")
    ELSE "research_manager"

\* After a risk-panel turn: cycle risky -> safe -> neutral until the limit.
should_continue_risk_analysis(state, node, cfg) ==
    IF state.risk_debate_state.count < cfg.max_risk_discuss_rounds
    THEN (CASE node = "risky" -> "safe"
            [] node = "safe"  -> "neutral"
            [] OTHER          -> "risky")
    ELSE "risk_judge"

\* ------------------------------------------------------------------ stages
\* One stage execution on the Decision State.  llm is the language model's
\* answer where the stage has a choice: "tool" / "report" for an analyst, the
\* final narrative for the risk judge.
RunStage(state, node, llm) ==
    LET said == [state EXCEPT !.messages = @ + 1]
        inv  == state.investment_debate_state
        risk == state.risk_debate_state
    IN  CASE node \in Range(AllAnalysts) ->
               IF llm = "tool" THEN said
               ELSE [said EXCEPT ![ReportField[node]] = node]
          [] node \in DOMAIN AnalystOfTool -> said
          [] node = "bull" ->
               [said EXCEPT !.investment_debate_state =
                   [inv EXCEPT !.bull_history = Append(@, "bull"),
                               !.history = Append(@, "bull"),
                               !.current_response = "bull"]]
          [] node = "bear" ->
               [said EXCEPT !.investment_debate_state =
                   [inv EXCEPT !.bear_history = Append(@, "bear"),
                               !.history = Append(@, "bear"),
                               !.current_response = "bear",
                               !.count = @ + 1]]
          [] node = "research_manager" ->
               [said EXCEPT !.investment_debate_state =
                                [inv EXCEPT !.judge_decision = "plan"],
                            !.investment_plan = "plan"]
          [] node = "trader" ->
               [said EXCEPT !.trader_investment_plan = "trade"]
          [] node = "risky" ->
               [said EXCEPT !.risk_debate_state =
                   [risk EXCEPT !.risky_history = Append(@, "risky"),
                                !.history = Append(@, "risky"),
                                !.latest_speaker = "risky"]]
          [] node = "safe" ->
               [said EXCEPT !.risk_debate_state =
                   [risk EXCEPT !.safe_history = Append(@, "safe"),
                                !.history = Append(@, "safe"),
                                !.latest_speaker = "safe"]]
          [] node = "neutral" ->
               [said EXCEPT !.risk_debate_state =
                   [risk EXCEPT !.neutral_history = Append(@, "neutral"),
                                !.history = Append(@, "neutral"),
                                !.latest_speaker = "neutral",
                                !.count = @ + 1]]
          [] node = "risk_judge" ->
               [said EXCEPT !.risk_debate_state =
                                [risk EXCEPT !.judge_decision = "judged"],
                            !.final_trade_decision = llm]
          [] OTHER -> state

\* The stage the Routing Policy selects after node ran and left state.
NextNode(state, node, llm, cfg) ==
    CASE node \in Range(AllAnalysts) ->
           IF llm = "tool" THEN ToolNode[node]
           ELSE AfterAnalyst(cfg.selected_analysts, node)
      [] node \in DOMAIN AnalystOfTool -> AnalystOfTool[node]
      [] node \in {"bull", "bear"} -> should_continue_debate(state, node, cfg)
      [] node = "research_manager" -> "trader"
      [] node = "trader" -> "risky"
      [] node \in {"risky", "safe", "neutral"} ->
           should_continue_risk_analysis(state, node, cfg)
      [] OTHER -> "END"

\* What the language model may answer at a stage; tool_calls is the number
\* of tool requests it has made in this run.
LLMAnswers(node, tool_calls) ==
    CASE node \in Range(AllAnalysts) ->
           IF tool_calls < MaxToolCalls THEN {"tool", "report"} ELSE {"report"}
      [] node = "risk_judge" -> FinalTexts
      [] OTHER -> {"text"}

\* ------------------------------------------------------------------ Signal Extractor
Directives == {"BUY", "SELL", "HOLD"}

\* SignalProcessor.process_signal: the last directive of the narrative is
\* authoritative; UNKNOWN when there is none.
process_signal(full_signal, stock_symbol) ==
    LET at == { i \in 1..Len(full_signal) : full_signal[i] \in Directives }
    IN  IF at = {} THEN "UNKNOWN"
        ELSE full_signal[CHOOSE i \in at : \A j \in at : j <= i]

\* ------------------------------------------------------------------ Reflection Engine
\* The Memory Store entry the Reflector writes for one role: the decision
\* context as situation key, the lesson drawn from the outcome.
ReflectionEntry(role, state, returns_losses) ==
    [ situationKey   |-> <<state.company_of_interest, state.trade_date>>,
      recommendation |-> <<role, returns_losses,
                           process_signal(state.final_trade_decision, "")>> ]

\* ------------------------------------------------------------------ Memory Store
\* add: one entry is appended to the store; the append is atomic, the store
\* goes from its old content to its old content plus the whole entry.
add(store, entry) == Append(store, entry)

\* Mutant of query: the read is not held off while an append is under way and
\* returns the entry being written with its situation key only.
queryDuringAppend(store, k) ==
    IF store = <<>> THEN <<>>
    ELSE <<[situationKey |-> store[Len(store)].situationKey]>>

\* query: at most k entries of the store as it stands when the query is
\* served (nearness is modelled by recency).
query(store, k) ==
    IF Len(store) <= k THEN store
    ELSE SubSeq(store, Len(store) - k + 1, Len(store))

\* The store each role stage of the graph consults before it speaks.
StoreOfStage ==
    [ bull |-> "bull", bear |-> "bear", research_manager |-> "invest_judge",
      trader |-> "trader", risk_judge |-> "risk_manager" ]

NoRecall == [store |-> None, entries |-> <<>>]

\* What a stage recalls: nothing for a stage without a store or with memory
\* disabled (the stores are None), else the answer to its query.
Recall(node, last) ==
    IF node \in DOMAIN StoreOfStage /\ config.memory_enabled
    THEN [store |-> StoreOfStage[node],
          entries |-> query(memory[StoreOfStage[node]], 1)]
    ELSE last

\* ------------------------------------------------------------------ Orchestrator
NoFile == [status |-> "absent"]
PartialFile == [status |-> "partial"]
JsonFile(dict) == [status |-> "json", content |-> dict]

NoResult == [op |-> "none", status |-> "none"]
IdleFrame == [at |-> "idle"]

\* The Orchestrator's fields and stores as a call finds them; clean tells
\* that every call before it returned normally.
Entry ==
    [ curr_state |-> curr_state, ticker |-> ticker,
      log_states_dict |-> log_states_dict, files |-> files,
      memory |-> memory,
      clean |-> \A u \in Threads :
                   \/ result[u].status = "none"
                   \/ result[u].status = "returned" /\ result[u].entry.clean ]

\* TradingAgentsGraph.__init__: the state-tracking fields.
InitCurrState == NoState
InitTicker == None
InitLogStatesDict == <<>>

InitWith(callers, configs) ==
    /\ config \in configs
    /\ curr_state = InitCurrState
    /\ ticker = InitTicker
    /\ log_states_dict = InitLogStatesDict
    /\ files = [c \in CompanyNames |-> NoFile]
    /\ memory = [r \in Range(Roles) |-> <<>>]
    /\ pc = [t \in Threads |-> IF t \in callers THEN "idle" ELSE "absent"]
    /\ frame = [t \in Threads |-> IdleFrame]
    /\ result = [t \in Threads |-> NoResult]
    /\ calls = 0

\* Mutant of graph: an empty selection falls back to all four analysts.
graphDefaulted ==
    IF config.selected_analysts = <<>>
    THEN [config EXCEPT !.selected_analysts = AllAnalysts]
    ELSE config

\* __init__, lines 281-306: self.graph is built by setup_graph for the
\* selected_analysts given, with the collaborators as configured.
graph == config

\* One caller: calls on the Orchestrator follow one another.
Init == InitWith({1}, Configs)

\* A call ends by raising error.
Raise(t, error) ==
    /\ pc' = [pc EXCEPT ![t] = "idle"]
    /\ frame' = [frame EXCEPT ![t] = IdleFrame]
    /\ result' = [result EXCEPT ![t] = [@ EXCEPT !.status = "raised",
                                                  !.error = error]]

\* propagate, lines 363-373: set self.ticker, build the initial state.
propagate(t, company_name, trade_date) ==
    /\ pc[t] = "idle"
    /\ calls < MaxCalls
    /\ calls' = calls + 1
    /\ ticker' = company_name
    /\ IF ValidInputs(company_name, trade_date)
       THEN /\ pc' = [pc EXCEPT ![t] = "graph"]
            /\ frame' = [frame EXCEPT ![t] =
                   [ company_name |-> company_name,
                     trade_date   |-> trade_date,
                     state        |-> create_initial_state(company_name, trade_date),
                     node         |-> EntryNode(graph.selected_analysts),
                     steps        |-> 0,
                     tool_calls   |-> 0,
                     trace        |-> <<>>,
                     recall       |-> NoRecall,
                     cancel_requested |-> FALSE ]]
            /\ result' = [result EXCEPT ![t] =
                   [ op |-> "propagate", status |-> "running", error |-> None,
                     entry |-> Entry, extracted |-> FALSE ]]
       ELSE /\ pc' = pc
            /\ frame' = frame
            /\ result' = [result EXCEPT ![t] =
                   [ op |-> "propagate", status |-> "raised",
                     error |-> "ValidationError",
                     entry |-> Entry, extracted |-> FALSE ]]
    /\ UNCHANGED <<config, curr_state, log_states_dict, files, memory>>

\* Mutant of TraceAfter: the test on the chunk's messages inverted.
TraceAfterInverted(trace, chunk) ==
    IF chunk.messages # 0 THEN trace ELSE Append(trace, chunk)

\* propagate, lines 378-383: a streamed chunk is kept unless its messages are empty.
TraceAfter(trace, chunk) ==
    IF chunk.messages = 0 THEN trace ELSE Append(trace, chunk)

\* graph.stream / graph.invoke: one stage transition of the run.
GraphStep(t) ==
    /\ pc[t] = "graph"
    /\ frame[t].node # "END"
    /\ frame[t].steps < config.recursion_limit
    /\ \E llm \in LLMAnswers(frame[t].node, frame[t].tool_calls) :
         LET after == RunStage(frame[t].state, frame[t].node, llm)
         IN  frame' = [frame EXCEPT ![t] =
                 [@ EXCEPT !.state = after,
                           !.node  = NextNode(after, frame[t].node, llm, graph),
                           !.steps = @ + 1,
                           !.tool_calls = IF llm = "tool" THEN @ + 1 ELSE @,
                           !.recall = Recall(frame[t].node, @),
                           !.trace = IF config.debug THEN TraceAfter(@, after)
                                     ELSE @]]
    /\ UNCHANGED <<config, curr_state, ticker, log_states_dict, files, memory,
                   pc, result, calls>>

\* Mutant of GraphLimit: the error is swallowed and the run goes on with the
\* state reached so far.
GraphLimitTruncates(t) ==
    /\ pc[t] = "graph"
    /\ frame[t].node # "END"
    /\ frame[t].steps >= config.recursion_limit
    /\ frame' = [frame EXCEPT ![t] =
           [@ EXCEPT !.node = "END",
                     !.trace = IF @ = <<>> THEN <<frame[t].state>> ELSE @]]
    /\ UNCHANGED <<config, curr_state, ticker, log_states_dict, files, memory,
                   pc, result, calls>>

\* The run needs another transition after recursion_limit of them.
GraphLimit(t) ==
    /\ pc[t] = "graph"
    /\ frame[t].node # "END"
    /\ frame[t].steps >= config.recursion_limit
    /\ Raise(t, "ExecutionLimitExceeded")
    /\ UNCHANGED <<config, curr_state, ticker, log_states_dict, files, memory,
                   calls>>

\* A stage's language-model or tool call fails and the failure escalates.
StageFails(t) ==
    /\ pc[t] = "graph"
    /\ frame[t].node # "END"
    /\ frame[t].steps < config.recursion_limit
    /\ Raise(t, "UpstreamError")
    /\ UNCHANGED <<config, curr_state, ticker, log_states_dict, files, memory,
                   calls>>

\* The caller asks for the run to be aborted (between two stages).
RequestCancel(t) ==
    /\ pc[t] = "graph"
    /\ frame[t].node # "END"
    /\ ~frame[t].cancel_requested
    /\ frame' = [frame EXCEPT ![t] = [@ EXCEPT !.cancel_requested = TRUE]]
    /\ UNCHANGED <<config, curr_state, ticker, log_states_dict, files, memory,
                   pc, result, calls>>

\* Mutant of FinalState: the first streamed chunk is taken, not the last.
FinalStateFirstChunk(t) ==
    IF config.debug
    THEN frame[t].trace[1]
    ELSE frame[t].state

\* propagate, lines 385 / 388: the state the run hands on.
FinalState(t) ==
    IF config.debug
    THEN frame[t].trace[Len(frame[t].trace)]
    ELSE frame[t].state

\* propagate, lines 385-391: take the final state, store it as current.
StoreCurrent(t) ==
    /\ pc[t] = "graph"
    /\ frame[t].node = "END"
    /\ IF config.debug /\ frame[t].trace = <<>>
       THEN /\ Raise(t, "IndexError")
            /\ UNCHANGED curr_state
       ELSE /\ curr_state' = FinalState(t)
            /\ pc' = [pc EXCEPT ![t] = "log"]
            /\ frame' = [frame EXCEPT ![t] =
                   [ company_name |-> frame[t].company_name,
                     trade_date   |-> frame[t].trade_date,
                     state        |-> frame[t].state,
                     steps        |-> frame[t].steps,
                     final_state  |-> FinalState(t),
                     cancel_requested |-> frame[t].cancel_requested ]]
            /\ UNCHANGED result
    /\ UNCHANGED <<config, ticker, log_states_dict, files, memory, calls>>

\* Mutant of Snapshot: the logged final decision is the investment plan and
\* the logged bear history is the bull history.
SnapshotMixedUp(final_state) ==
    [ company_of_interest |-> final_state.company_of_interest,
      trade_date          |-> final_state.trade_date,
      market_report       |-> final_state.market_report,
      sentiment_report    |-> final_state.sentiment_report,
      news_report         |-> final_state.news_report,
      fundamentals_report |-> final_state.fundamentals_report,
      investment_debate_state |->
          [ bull_history |-> final_state.investment_debate_state.bull_history,
            bear_history |-> final_state.investment_debate_state.bull_history,
            history      |-> final_state.investment_debate_state.history,
            current_response |->
                final_state.investment_debate_state.current_response,
            judge_decision |->
                final_state.investment_debate_state.judge_decision ],
      trader_investment_decision |-> final_state.trader_investment_plan,
      risk_debate_state |->
          [ risky_history   |-> final_state.risk_debate_state.risky_history,
            safe_history    |-> final_state.risk_debate_state.safe_history,
            neutral_history |-> final_state.risk_debate_state.neutral_history,
            history         |-> final_state.risk_debate_state.history,
            judge_decision  |-> final_state.risk_debate_state.judge_decision ],
      investment_plan      |-> final_state.investment_plan,
      final_trade_decision |-> <<final_state.investment_plan>> ]

\* _log_state, lines 401-429: the snapshot of the final state that is logged.
Snapshot(final_state) ==
    [ company_of_interest |-> final_state.company_of_interest,
      trade_date          |-> final_state.trade_date,
      market_report       |-> final_state.market_report,
      sentiment_report    |-> final_state.sentiment_report,
      news_report         |-> final_state.news_report,
      fundamentals_report |-> final_state.fundamentals_report,
      investment_debate_state |->
          [ bull_history |-> final_state.investment_debate_state.bull_history,
            bear_history |-> final_state.investment_debate_state.bear_history,
            history      |-> final_state.investment_debate_state.history,
            current_response |->
                final_state.investment_debate_state.current_response,
            judge_decision |->
                final_state.investment_debate_state.judge_decision ],
      trader_investment_decision |-> final_state.trader_investment_plan,
      risk_debate_state |->
          [ risky_history   |-> final_state.risk_debate_state.risky_history,
            safe_history    |-> final_state.risk_debate_state.safe_history,
            neutral_history |-> final_state.risk_debate_state.neutral_history,
            history         |-> final_state.risk_debate_state.history,
            judge_decision  |-> final_state.risk_debate_state.judge_decision ],
      investment_plan      |-> final_state.investment_plan,
      final_trade_decision |-> final_state.final_trade_decision ]

\* dict[key] = value
DictPut(dict, key, value) ==
    [ k \in DOMAIN dict \cup {key} |-> IF k = key THEN value ELSE dict[k] ]

\* _log_state, line 401: the key the snapshot is stored under.
LogKey(trade_date) == Str(trade_date)

\* _log_state, lines 432-436: the instrument directory the log file is written to.
LogDirectory == ticker

\* _log_state, line 439: what is dumped into the file.
LogFileContent(dict) == dict

\* File-system outcomes of lines 432-439: the dump succeeds; mkdir or open
\* raises and the file is untouched; the dump raises after open(.., "w")
\* truncated the file.
IOOutcomes == {"ok", "open_fails", "dump_fails"}

\* propagate line 394, _log_state lines 399-439.
_log_state(t) ==
    /\ pc[t] = "log"
    /\ LET dict == DictPut(log_states_dict, LogKey(frame[t].trade_date),
                           Snapshot(frame[t].final_state))
       IN  /\ log_states_dict' = dict
           /\ \E io \in IOOutcomes :
                CASE io = "ok" ->
                       /\ files' = [files EXCEPT ![LogDirectory] =
                                        JsonFile(LogFileContent(dict))]
                       /\ pc' = [pc EXCEPT ![t] = "signal"]
                       /\ UNCHANGED <<frame, result>>
                  [] io = "open_fails" ->
                       /\ files' = files
                       /\ Raise(t, "OSError")
                  [] OTHER ->
                       /\ files' = [files EXCEPT ![LogDirectory] = PartialFile]
                       /\ Raise(t, "OSError")
    /\ UNCHANGED <<config, curr_state, ticker, memory, calls>>

\* propagate line 397: extract the signal and return (final_state, signal).
ReturnSignal(t) ==
    /\ pc[t] = "signal"
    /\ \E llm_ok \in BOOLEAN :
         IF llm_ok
         THEN /\ pc' = [pc EXCEPT ![t] = "idle"]
              /\ frame' = [frame EXCEPT ![t] = IdleFrame]
              /\ result' = [result EXCEPT ![t] =
                     [@ EXCEPT !.status = "returned", !.extracted = TRUE]
                       @@ [ final_state |-> frame[t].final_state,
                            graph_state |-> frame[t].state,
                            signal |-> process_signal(
                                frame[t].final_state.final_trade_decision,
                                frame[t].company_name) ]]
         ELSE /\ pc' = [pc EXCEPT ![t] = "idle"]
              /\ frame' = [frame EXCEPT ![t] = IdleFrame]
              /\ result' = [result EXCEPT ![t] =
                     [@ EXCEPT !.status = "raised", !.error = "UpstreamError",
                               !.extracted = TRUE]]
    /\ UNCHANGED <<config, curr_state, ticker, log_states_dict, files, memory,
                   calls>>

\* Mutant of MemoryArg: the bear reflection is handed the bull store.
MemoryArgShared(role) ==
    CASE role = "bull"         -> "bull"
      [] role = "bear"         -> "bull"
      [] role = "trader"       -> "trader"
      [] role = "invest_judge" -> "invest_judge"
      [] OTHER                 -> "risk_manager"

\* Mutant of MemoryArg: the invest judge's reflection is handed the risk
\* manager's store.
MemoryArgJudgesShared(role) ==
    CASE role = "bull"         -> "bull"
      [] role = "bear"         -> "bear"
      [] role = "trader"       -> "trader"
      [] role = "invest_judge" -> "risk_manager"
      [] OTHER                 -> "risk_manager"

\* reflect_and_remember, lines 443-457: the store handed to each role's reflection.
MemoryArg(role) ==
    CASE role = "bull"         -> "bull"
      [] role = "bear"         -> "bear"
      [] role = "trader"       -> "trader"
      [] role = "invest_judge" -> "invest_judge"
      [] OTHER                 -> "risk_manager"

\* Mutant of StateArg: an unset state is replaced by a blank one.
StateArgDefaulted ==
    IF curr_state = NoState
    THEN create_initial_state("AAPL", [type |-> "str", iso |-> "2024-05-01"])
    ELSE curr_state

\* reflect_and_remember, lines 444-456: the state handed to each role's reflection.
StateArg == curr_state

\* Mutant of reflect_and_remember: entering the call forgets the instrument.
reflect_and_remember_resets(t, returns_losses) ==
    /\ pc[t] = "idle"
    /\ calls < MaxCalls
    /\ calls' = calls + 1
    /\ pc' = [pc EXCEPT ![t] = "reflect"]
    /\ frame' = [frame EXCEPT ![t] =
           [returns_losses |-> returns_losses, role |-> 1]]
    /\ result' = [result EXCEPT ![t] =
           [ op |-> "reflect", status |-> "running", error |-> None,
             returns_losses |-> returns_losses, entry |-> Entry,
             reflected |-> {}, failed |-> {} ]]
    /\ ticker' = InitTicker
    /\ UNCHANGED <<config, curr_state, log_states_dict, files, memory>>

\* reflect_and_remember, line 441: the call is entered.
reflect_and_remember(t, returns_losses) ==
    /\ pc[t] = "idle"
    /\ calls < MaxCalls
    /\ calls' = calls + 1
    /\ pc' = [pc EXCEPT ![t] = "reflect"]
    /\ frame' = [frame EXCEPT ![t] =
           [returns_losses |-> returns_losses, role |-> 1]]
    /\ result' = [result EXCEPT ![t] =
           [ op |-> "reflect", status |-> "running", error |-> None,
             returns_losses |-> returns_losses, entry |-> Entry,
             reflected |-> {}, failed |-> {} ]]
    /\ UNCHANGED <<config, curr_state, ticker, log_states_dict, files, memory>>

\* What happens to the call when one role's reflection raises: lines 443-457
\* have no handler, the exception leaves reflect_and_remember.
AfterRoleFailure(t, role, error) ==
    /\ pc' = [pc EXCEPT ![t] = "idle"]
    /\ frame' = [frame EXCEPT ![t] = IdleFrame]
    /\ result' = [result EXCEPT ![t] =
           [@ EXCEPT !.status = "raised", !.error = error,
                     !.failed = @ \cup {role}]]

\* The call goes on to the next role, or returns after the last.
AfterRoleDone(t, role) ==
    IF frame[t].role < Len(Roles)
    THEN /\ pc' = pc
         /\ frame' = [frame EXCEPT ![t] = [@ EXCEPT !.role = @ + 1]]
         /\ result' = [result EXCEPT ![t] =
                [@ EXCEPT !.reflected = @ \cup {role}]]
    ELSE /\ pc' = [pc EXCEPT ![t] = "idle"]
         /\ frame' = [frame EXCEPT ![t] = IdleFrame]
         /\ result' = [result EXCEPT ![t] =
                [@ EXCEPT !.status = "returned",
                          !.reflected = @ \cup {role}]]

\* One of the five calls of lines 443-457: the Reflector reads the state,
\* asks the language model for a lesson and adds it to the store it was given.
ReflectRole(t) ==
    /\ pc[t] = "reflect"
    /\ LET role == Roles[frame[t].role]
       IN  \E llm_ok \in BOOLEAN :
             CASE StateArg = NoState ->
                    /\ AfterRoleFailure(t, role, "NoPriorRunError")
                    /\ UNCHANGED memory
               [] ~llm_ok ->
                    /\ AfterRoleFailure(t, role, "UpstreamError")
                    /\ UNCHANGED memory
               [] ~config.memory_enabled ->
                    /\ AfterRoleFailure(t, role, "AttributeError")
                    /\ UNCHANGED memory
               [] OTHER ->
                    /\ memory' = [memory EXCEPT ![MemoryArg(role)] =
                           add(@, ReflectionEntry(role, StateArg,
                                                  frame[t].returns_losses))]
                    /\ AfterRoleDone(t, role)
    /\ UNCHANGED <<config, curr_state, ticker, log_states_dict, files, calls>>

\* ------------------------------------------------------------------ specification
Next ==
    \/ \E t \in Threads, c \in CompanyNames, d \in TradeDates : propagate(t, c, d)
    \/ \E t \in Threads : GraphStep(t)
    \/ \E t \in Threads : GraphLimit(t)
    \/ \E t \in Threads : StageFails(t)
    \/ \E t \in Threads : RequestCancel(t)
    \/ \E t \in Threads : StoreCurrent(t)
    \/ \E t \in Threads : _log_state(t)
    \/ \E t \in Threads : ReturnSignal(t)
    \/ \E t \in Threads, o \in Outcomes : reflect_and_remember(t, o)
    \/ \E t \in Threads : ReflectRole(t)

Spec == Init /\ [][Next]_vars

\* Two callers share the Orchestrator and their calls interleave.
ParInit == InitWith({1, 2}, ParConfigs)

ParSpec == ParInit /\ [][Next]_vars

\* graph.invoke on a run whose analysts request no tool and whose risk judge
\* answers text: the terminal state.
RECURSIVE RunToEnd(_, _, _, _)
RunToEnd(state, node, text, cfg) ==
    IF node = "END" THEN state
    ELSE LET llm   == CASE node = "risk_judge" -> text
                        [] node \in Range(AllAnalysts) -> "report"
                        [] OTHER -> "text"
             after == RunStage(state, node, llm)
         IN  RunToEnd(after, NextNode(after, node, llm, cfg), text, cfg)

\* The Orchestrator two callers share once a first propagate has returned:
\* its state is stored and logged, the stores are still empty.
PriorRunInit ==
    LET cfg   == Config(FALSE, <<>>, TRUE, 10)
        name  == "AAPL"
        date  == [type |-> "str", iso |-> "2024-05-01"]
        final == RunToEnd(create_initial_state(name, date),
                          EntryNode(cfg.selected_analysts),
                          <<"BUY", "risk", "HOLD">>, cfg)
        dict  == DictPut(InitLogStatesDict, LogKey(date), Snapshot(final))
    IN  /\ config = cfg
        /\ curr_state = final
        /\ ticker = name
        /\ log_states_dict = dict
        /\ files = [c \in CompanyNames |->
                       IF c = name THEN JsonFile(LogFileContent(dict))
                       ELSE NoFile]
        /\ memory = [r \in Range(Roles) |-> <<>>]
        /\ pc = [t \in Threads |-> "idle"]
        /\ frame = [t \in Threads |-> IdleFrame]
        /\ result = [t \in Threads |-> NoResult]
        /\ calls = 0

\* trade_date arguments of the runs that follow the prior run.
NextDates == { [type |-> "date", iso |-> "2024-05-02"] }

\* Caller 1 runs again while caller 2 reflects on the prior run.  (No run of
\* this configuration needs more than recursion_limit transitions, and
\* caller 1 does not ask for an abort.)
MemNext ==
    \/ \E c \in Instruments, d \in NextDates : propagate(1, c, d)
    \/ GraphStep(1)
    \/ StageFails(1)
    \/ StoreCurrent(1)
    \/ _log_state(1)
    \/ ReturnSignal(1)
    \/ \E o \in Outcomes : reflect_and_remember(2, o)
    \/ ReflectRole(2)

MemSpec == PriorRunInit /\ [][MemNext]_vars

\* ------------------------------------------------------------------ claims
Running == {"graph", "log", "signal"}

C2_FailedRunKeepsCurrentState ==
    \A t \in Threads :
        (result[t].op = "propagate" /\ result[t].status = "raised") =>
            curr_state = result[t].entry.curr_state

\* C3: in streaming (debug) mode as in batch mode, the state a run takes as
\* final, stores as current and extracts the signal from is the terminal state
\* the graph execution computed, and collecting the stream never fails the run.
C3_StreamingIsObservational ==
    \A t \in Threads :
        /\ pc[t] \in {"log", "signal"} =>
               /\ frame[t].final_state = frame[t].state
               /\ curr_state = frame[t].state
        /\ (result[t].op = "propagate" /\ result[t].status = "returned") =>
               /\ result[t].final_state = result[t].graph_state
               /\ result[t].signal =
                      process_signal(result[t].graph_state.final_trade_decision,
                                     result[t].graph_state.company_of_interest)
        /\ (result[t].op = "propagate" /\ result[t].status = "raised") =>
               result[t].error # "IndexError"

C3_Witness ==
    \E t \in Threads :
        /\ config.debug
        /\ result[t].op = "propagate"
        /\ result[t].status = "returned"
        /\ result[t].final_state.market_report # ""
        /\ result[t].signal = "HOLD"

\* C4: a run that needs more stage transitions than recursion_limit raises
\* ExecutionLimitExceeded: nothing is stored as current, nothing is logged, the
\* Signal Extractor is not invoked; no run makes more than recursion_limit
\* transitions, a run in the graph can always take its next step, and a state
\* that is stored is a terminal one reached within the limit.
C4_ExecutionLimit ==
    \A t \in Threads :
        /\ (result[t].op = "propagate"
              /\ result[t].error = "ExecutionLimitExceeded") =>
               /\ result[t].status = "raised"
               /\ curr_state = result[t].entry.curr_state
               /\ log_states_dict = result[t].entry.log_states_dict
               /\ files = result[t].entry.files
               /\ ~result[t].extracted
        /\ pc[t] = "graph" =>
               /\ frame[t].steps <= config.recursion_limit
               /\ ENABLED (GraphStep(t) \/ GraphLimit(t) \/ StoreCurrent(t))
               /\ (frame[t].node # "END"
                     /\ frame[t].steps >= config.recursion_limit) =>
                      ~ ENABLED (GraphStep(t) \/ StoreCurrent(t))
        /\ pc[t] \in {"log", "signal"} =>
               /\ frame[t].steps <= config.recursion_limit
               /\ frame[t].final_state.final_trade_decision # <<>>

C4_Witness ==
    \E t \in Threads :
        /\ result[t].op = "propagate"
        /\ result[t].error = "ExecutionLimitExceeded"
        /\ result[t].entry.curr_state # NoState
        /\ config.recursion_limit > 1
\* C5: once reflect_and_remember on a stored state has ended, every role
\* whose own reflection did not fail has had its lesson appended, whichever
\* role failed.
C5_FailureDoesNotBlockOtherRoles ==
    \A t \in Threads :
        ( /\ result[t].op = "reflect"
          /\ result[t].status \in {"returned", "raised"}
          /\ result[t].entry.curr_state # NoState
          /\ config.memory_enabled ) =>
            \A r \in Range(Roles) :
                r \notin result[t].failed =>
                    /\ r \in result[t].reflected
                    /\ Len(memory[r]) = Len(result[t].entry.memory[r]) + 1

\* C6: the five role reflections are given five distinct stores, every entry
\* of a store was written by its own role's reflection, and while a call of
\* reflect_and_remember proceeds each store holds what it held at entry plus
\* one entry if its own role has been reflected: reflecting a role leaves
\* every other role's store as it was.
C6_ReflectionTouchesOwnStoreOnly ==
    /\ \A r, q \in Range(Roles) : r # q => MemoryArg(r) # MemoryArg(q)
    /\ \A r \in Range(Roles) : \A i \in 1..Len(memory[r]) :
           memory[r][i].recommendation[1] = r
    /\ \A t \in Threads :
           result[t].op = "reflect" =>
               \A r \in Range(Roles) :
                   LET before == result[t].entry.memory[r]
                   IN  /\ Len(memory[r]) =
                              Len(before)
                                + (IF r \in result[t].reflected THEN 1 ELSE 0)
                       /\ SubSeq(memory[r], 1, Len(before)) = before

C6_Witness ==
    \E t \in Threads :
        /\ result[t].op = "reflect"
        /\ result[t].status = "running"
        /\ result[t].reflected = {"bull", "bear"}
        /\ Len(memory["bear"]) = 1
        /\ Len(memory["trader"]) = 0

\* C7: after a sequence of successful runs, every entry an earlier run of an
\* instrument left in that instrument's persisted log is still there with its
\* snapshot unchanged.
C7_RunLogAppendOnly ==
    \A t \in Threads :
        ( /\ result[t].op = "propagate"
          /\ result[t].status = "returned"
          /\ result[t].entry.clean ) =>
            LET x   == result[t].final_state.company_of_interest
                old == result[t].entry.files[x]
            IN  old.status = "json" =>
                    /\ files[x].status = "json"
                    /\ \A k \in DOMAIN old.content :
                           old.content[k].company_of_interest = x =>
                               /\ k \in DOMAIN files[x].content
                               /\ files[x].content[k] = old.content[k]

\* C8: the log persisted for an instrument holds only snapshots of runs of
\* that instrument.
C8_RunLogKeyedPerInstrument ==
    \A x \in CompanyNames :
        files[x].status = "json" =>
            \A k \in DOMAIN files[x].content :
                files[x].content[k].company_of_interest = x

\* C9: when two runs for different instruments and dates are in progress at
\* once, a run that has written its log has its snapshot persisted under its
\* own instrument, and the state it hands on is the one its own graph
\* execution computed.
C9_ParallelRunsShareNothing ==
    \A t \in Threads : \A u \in Threads \ {t} :
        ( /\ pc[t] = "signal"
          /\ pc[u] \in Running
          /\ frame[u].company_name # frame[t].company_name
          /\ Str(frame[u].trade_date) # Str(frame[t].trade_date) ) =>
            /\ frame[t].final_state = frame[t].state
            /\ files[frame[t].company_name].status = "json"
            /\ LogKey(frame[t].trade_date)
                   \in DOMAIN files[frame[t].company_name].content
            /\ files[frame[t].company_name]
                   .content[LogKey(frame[t].trade_date)]
                 = Snapshot(frame[t].final_state)

\* C10: a run whose abort was requested before a stage was dispatched yields
\* no terminal state: it reaches neither the store of the current state nor
\* the Signal Extractor.
C10_AbortedRunYieldsNothing ==
    \A t \in Threads :
        pc[t] \in {"log", "signal"} => ~frame[t].cancel_requested

C12_CurrentIsLastCompletedRun ==
    \A t \in Threads :
        /\ pc[t] = "signal" =>
               /\ curr_state = frame[t].final_state
               /\ ~result[t].extracted
        /\ (result[t].op = "propagate" /\ result[t].entry.clean) =>
               /\ result[t].status = "returned" =>
                      /\ curr_state = result[t].final_state
                      /\ result[t].final_state = result[t].graph_state
                      /\ result[t].extracted
                      /\ result[t].signal =
                             process_signal(curr_state.final_trade_decision,
                                            curr_state.company_of_interest)
               /\ result[t].status = "raised" =>
                      curr_state = result[t].entry.curr_state

\* C13: wherever the Routing Policy is invoked in a run, the round counter
\* of the investment debate is at most max_debate_rounds and that of the risk
\* debate at most max_risk_discuss_rounds, and no stage transition of a run
\* lowers either counter.
C13_RoundCountersBounded ==
    /\ [](\A t \in Threads :
             pc[t] = "graph" =>
                 /\ frame[t].state.investment_debate_state.count
                        <= config.max_debate_rounds
                 /\ frame[t].state.risk_debate_state.count
                        <= config.max_risk_discuss_rounds)
    /\ [][\A t \in Threads :
             (pc[t] = "graph" /\ pc'[t] = "graph"
                /\ frame'[t].steps = frame[t].steps + 1) =>
                 /\ frame'[t].state.investment_debate_state.count
                        >= frame[t].state.investment_debate_state.count
                 /\ frame'[t].state.risk_debate_state.count
                        >= frame[t].state.risk_debate_state.count]_vars

C13_Witness ==
    \E t \in Threads :
        /\ pc[t] = "graph"
        /\ frame[t].node = "risk_judge"
        /\ frame[t].state.investment_debate_state.count = 2
        /\ frame[t].state.risk_debate_state.count = 1
        /\ config.max_debate_rounds = 2

\* C14: final_trade_decision is non-empty exactly when the run has reached
\* the terminal state: it is set by the risk judge and by no other stage, no
\* streamed state before the last has it, no stage transition follows it,
\* and the state a run stores as current, hands to the Signal Extractor and
\* returns has it non-empty.
C14_FinalDecisionIffTerminal ==
    /\ curr_state # NoState => curr_state.final_trade_decision # <<>>
    /\ \A t \in Threads :
           /\ pc[t] = "graph" =>
                  /\ frame[t].state.final_trade_decision # <<>>
                         <=> frame[t].node = "END"
                  /\ frame[t].state.final_trade_decision # <<>>
                         <=> frame[t].state.risk_debate_state.judge_decision # ""
                  /\ \A i \in 1..(Len(frame[t].trace) - 1) :
                         frame[t].trace[i].final_trade_decision = <<>>
                  /\ frame[t].node = "END" => ~ ENABLED GraphStep(t)
           /\ pc[t] \in {"log", "signal"} =>
                  /\ frame[t].final_state.final_trade_decision # <<>>
                  /\ frame[t].final_state.final_trade_decision
                         = frame[t].state.final_trade_decision
           /\ (result[t].op = "propagate" /\ result[t].status = "returned") =>
                  result[t].final_state.final_trade_decision # <<>>

C14_Witness ==
    \E t \in Threads :
        /\ config.debug
        /\ pc[t] = "signal"
        /\ curr_state # NoState
        /\ curr_state.final_trade_decision = <<"risk">>
        /\ frame[t].steps > 8

\* C15: on an Orchestrator built with no analyst selected, a run never enters
\* an analyst or tool stage, the routing always yields a stage of the graph,
\* the four report fields stay empty up to the terminal state, which is
\* reached in eight transitions, stored and logged with empty reports; a run
\* fails only on a failure of its environment or on a recursion_limit below
\* eight, never in the routing, the stream collection or the snapshot.
C15_NoAnalystsStillRuns ==
    config.selected_analysts = <<>> =>
        \A t \in Threads :
            /\ pc[t] = "graph" =>
                   /\ frame[t].node \in
                          {"bull", "bear", "research_manager", "trader",
                           "risky", "safe", "neutral", "risk_judge", "END"}
                   /\ \A a \in Range(AllAnalysts) :
                          frame[t].state[ReportField[a]] = ""
                   /\ ENABLED (GraphStep(t) \/ GraphLimit(t) \/ StoreCurrent(t))
                   /\ frame[t].node = "END" => frame[t].steps = 8
            /\ pc[t] \in {"log", "signal"} =>
                   /\ \A a \in Range(AllAnalysts) :
                          frame[t].final_state[ReportField[a]] = ""
                   /\ frame[t].final_state.final_trade_decision # <<>>
            /\ pc[t] = "log" => ENABLED _log_state(t)
            /\ pc[t] = "signal" =>
                   LET logged == log_states_dict[LogKey(frame[t].trade_date)]
                   IN  \A a \in Range(AllAnalysts) :
                           logged[ReportField[a]] = ""
            /\ (result[t].op = "propagate" /\ result[t].status = "raised") =>
                   /\ result[t].error \in
                          {"ValidationError", "UpstreamError", "OSError",
                           "ExecutionLimitExceeded"}
                   /\ result[t].error = "ExecutionLimitExceeded" =>
                          config.recursion_limit < 8

C15_Witness ==
    \E t \in Threads :
        /\ config.selected_analysts = <<>>
        /\ result[t].op = "propagate"
        /\ result[t].status = "returned"
        /\ result[t].final_state.market_report = ""
        /\ result[t].final_state.fundamentals_report = ""
        /\ result[t].signal = "HOLD"

\* C16: a call of reflect_and_remember(returns_losses) that returns has
\* reflected each of the five roles, and each role's store holds what it held
\* when the call began plus exactly one entry, written by that role from the
\* state that was stored when the call began and from returns_losses.
C16_ReflectsEachRoleOnce ==
    \A t \in Threads :
        (result[t].op = "reflect" /\ result[t].status = "returned") =>
            /\ result[t].reflected
                   = {"bull", "bear", "trader", "invest_judge", "risk_manager"}
            /\ result[t].failed = {}
            /\ curr_state = result[t].entry.curr_state
            /\ \A r \in {"bull", "bear", "trader", "invest_judge",
                          "risk_manager"} :
                   LET before == result[t].entry.memory[r]
                       new    == memory[r][Len(memory[r])]
                   IN  /\ Len(memory[r]) = Len(before) + 1
                       /\ SubSeq(memory[r], 1, Len(before)) = before
                       /\ new.situationKey
                              = <<curr_state.company_of_interest,
                                  curr_state.trade_date>>
                       /\ new.recommendation[1] = r
                       /\ new.recommendation[2] = result[t].returns_losses

C16_Witness ==
    \E t \in Threads :
        /\ result[t].op = "reflect"
        /\ result[t].status = "returned"
        /\ result[t].returns_losses = -1
        /\ \A r \in Range(Roles) : Len(memory[r]) = 1

\* C17: no step of a reflect_and_remember call, entering it, reflecting a
\* role, returning or raising, changes the stored current state, the ticker,
\* the run-log mapping, the log files or the graph; the Memory Stores are
\* all it writes.
C17_ReflectChangesOnlyMemory ==
    [][(\E t \in Threads : pc[t] = "reflect" \/ pc'[t] = "reflect") =>
           /\ curr_state' = curr_state
           /\ ticker' = ticker
           /\ log_states_dict' = log_states_dict
           /\ files' = files
           /\ graph' = graph]_vars

C17_Witness ==
    \E t \in Threads :
        /\ result[t].op = "reflect"
        /\ result[t].status = "raised"
        /\ result[t].reflected = {"bull", "bear", "trader"}
        /\ Len(memory["trader"]) = 1
        /\ ticker = "MSFT"

\* C18: whenever no run is in progress and a current state is stored, ticker
\* is the instrument of the stored current state.
C18_TickerIsStoredInstrument ==
    ((\A t \in Threads : pc[t] \notin Running) /\ curr_state # NoState) =>
        ticker = curr_state.company_of_interest

\* C19: calls following one another, whenever no run is in progress and a
\* current state is stored, log_states_dict has an entry under str() of that
\* state's trade date whose reports, debate histories and final decision are
\* those of the stored state; and a run that raised without storing a state
\* left log_states_dict as it found it.
C19_CurrentStateIsLogged ==
    /\ ((\A t \in Threads : pc[t] \notin Running) /\ curr_state # NoState) =>
           /\ curr_state.trade_date \in DOMAIN log_states_dict
           /\ LET logged == log_states_dict[curr_state.trade_date]
                   inv    == curr_state.investment_debate_state
                   risk   == curr_state.risk_debate_state
               IN  /\ logged.company_of_interest = curr_state.company_of_interest
                   /\ \A a \in Range(AllAnalysts) :
                          logged[ReportField[a]] = curr_state[ReportField[a]]
                   /\ logged.investment_debate_state.bull_history
                          = inv.bull_history
                   /\ logged.investment_debate_state.bear_history
                          = inv.bear_history
                   /\ logged.investment_debate_state.history = inv.history
                   /\ logged.investment_debate_state.judge_decision
                          = inv.judge_decision
                   /\ logged.risk_debate_state.risky_history = risk.risky_history
                   /\ logged.risk_debate_state.safe_history = risk.safe_history
                   /\ logged.risk_debate_state.neutral_history
                          = risk.neutral_history
                   /\ logged.risk_debate_state.history = risk.history
                   /\ logged.risk_debate_state.judge_decision
                          = risk.judge_decision
                   /\ logged.trader_investment_decision
                          = curr_state.trader_investment_plan
                   /\ logged.investment_plan = curr_state.investment_plan
                   /\ logged.final_trade_decision
                          = curr_state.final_trade_decision
    /\ \A t \in Threads :
           ( /\ result[t].op = "propagate"
             /\ result[t].status = "raised"
             /\ curr_state = result[t].entry.curr_state ) =>
               log_states_dict = result[t].entry.log_states_dict

C19_Witness ==
    \E t \in Threads :
        /\ pc[t] = "idle"
        /\ result[t].op = "propagate"
        /\ result[t].status = "raised"
        /\ result[t].error = "OSError"
        /\ result[t].entry.curr_state # NoState
        /\ result[t].entry.curr_state.trade_date = curr_state.trade_date
        /\ result[t].entry.curr_state.company_of_interest
               # curr_state.company_of_interest
        /\ curr_state.market_report # ""

====
